---- MODULE Spec2Model ----
(***************************************************************************)
(* A model of the watchtower update trigger (pkg/api/update/update.go) and *)
(* of the update pass (actions.Update and its helpers).                    *)
(*                                                                         *)
(* Part 1 is the trigger gate: the package-level channel `lock`, the       *)
(* factory New and the HTTP handler Handler.Handle, one process per        *)
(* request.  Part 2 is one update pass over a snapshot of containers.      *)
(* The two parts have their own specifications (SpecGate, SpecPass); the   *)
(* variables of the other part stay at their initial values.               *)
(***************************************************************************)
EXTENDS Integers, Sequences, FiniteSets, TLC

(***************************************************************************)
(* Bounds                                                                  *)
(***************************************************************************)
\* number of concurrent HTTP requests sent to Handle
NumRequests == 3

\* the calls of New made after the gate was first made
MaxNews == 2

\* largest number of containers the runtime client lists
MaxContainers == 2

Requests == 1..NumRequests

\* container names: the name of a container is its number; a name above the
\* length of the snapshot is the name of a peer that is not in the snapshot
Names == 1..MaxContainers

ImageIDs == {"img1", "img2"}

\* HTTP status codes of net/http
StatusOK == 200
StatusBadRequest == 400

VARIABLES
    lock,       \* the package-level `lock`: an index into chans
    chans,      \* every channel made so far: [cap, buf]
    pc,         \* position of each request inside Handle
    chanValue,  \* the local chanValue of each request (the token it received)
    resp,       \* the http.ResponseWriter of each request
    fnCalls,    \* how often handle.fn was invoked on behalf of each request
    outcome,    \* how each request left Handle
    busyAtSelect, \* history: was a pass executing when the request ran its select
    atSelect,   \* history: what the gate had seen when the request ran its select
    newPc,      \* position of the caller of New inside New
    news        \* how often New was called after the first time

gateVars == <<lock, chans, pc, chanValue, resp, fnCalls, outcome, busyAtSelect,
              atSelect, newPc, news>>

VARIABLES
    snapshot,           \* what client.ListContainers returns, in its order
    params,             \* types.UpdateParams
    ppc,                \* position of the pass inside Update
    containers,         \* the local `containers` of Update
    metric,             \* the local `metric` of Update
    staleCount,         \* the local staleCount of Update
    staleCheckFailed,   \* the local staleCheckFailed of Update
    containersToUpdate, \* the local containersToUpdate of Update
    idx,                \* the loop index i of the loop being executed
    failed,             \* the local `failed` of the restart function executing
    imageIDs,           \* the local imageIDs / cleanupImageIDs map (its key set)
    calls,              \* every call made on the client and the hooks, in order
    removed,            \* the image IDs passed to client.RemoveImageByID
    returned            \* what Update returned: "none" yet, "error" or "metric"

passVars == <<snapshot, params, ppc, containers, metric, staleCount, staleCheckFailed,
              containersToUpdate, idx, failed, imageIDs, calls, removed, returned>>

vars == <<gateVars, passVars>>

(***************************************************************************)
(* Go channels: a buffered channel is its capacity and its buffer.         *)
(***************************************************************************)
MakeChan(capacity) == [cap |-> capacity, buf |-> <<>>]

\* `ch <- v` can proceed (no receiver is ever parked on the gate: the only
\* receive is the non-blocking select of Handle)
CanSend(ch) == Len(ch.buf) < ch.cap

Send(ch, v) == [ch EXCEPT !.buf = Append(@, v)]

\* `<-ch` inside a select with a default branch is ready
CanRecv(ch) == Len(ch.buf) > 0

\* a receive that reads the token and leaves it in the buffer
RecvKeep(ch) == ch

Recv(ch) == [ch EXCEPT !.buf = Tail(@)]

(***************************************************************************)
(* http.ResponseWriter: the first Write sends the header with status 200   *)
(* if none was sent; WriteHeader after the header was sent changes nothing.*)
(***************************************************************************)
NoResponse == [wroteHeader |-> FALSE, status |-> 0, body |-> <<>>]

WriteHeader(w, code) ==
    IF w.wroteHeader THEN w
    ELSE [w EXCEPT !.wroteHeader = TRUE, !.status = code]

Write(w, text) ==
    LET h == WriteHeader(w, StatusOK)
    IN  [h EXCEPT !.body = Append(@, text)]

\* the status the client sees once the handler has returned
FinalStatus(w) == IF w.wroteHeader THEN w.status ELSE StatusOK

(***************************************************************************)
(* New(updateFn, updateLock)                                               *)
(***************************************************************************)
\* a New that makes its channel and puts no token into it
NewOwnLockEmpty == MakeChan(1)

\* New with updateLock = nil: lock = make(chan bool, 1); lock <- true
NewOwnLock == Send(MakeChan(1), TRUE)

\* the executing passes: requests whose handle.fn has been called and has
\* not returned or panicked yet
Executing == {r \in Requests : pc[r] = "running"}

\* requests that hold the token: admitted, release not yet done
Holding == {r \in Requests : pc[r] \in {"running", "release"}}

\* history of a request that has not run its select
NotSeen == [made |-> FALSE, completed |-> FALSE, held |-> FALSE]

\* history taken by a request at its select: some pass has completed (its
\* update function has returned or panicked); some request holds the token
Seen == [made |-> TRUE,
         completed |-> \E q \in Requests : outcome[q] \in {"ran", "panicked"},
         held |-> Holding # {}]

GateIdle ==
    /\ chans = <<NewOwnLock>>
    /\ lock = 1
    /\ pc = [r \in Requests |-> "idle"]
    /\ chanValue = [r \in Requests |-> FALSE]
    /\ resp = [r \in Requests |-> NoResponse]
    /\ fnCalls = [r \in Requests |-> 0]
    /\ outcome = [r \in Requests |-> "none"]
    /\ busyAtSelect = [r \in Requests |-> FALSE]
    /\ atSelect = [r \in Requests |-> NotSeen]
    /\ newPc = "idle"
    /\ news = 0

(***************************************************************************)
(* Handler.Handle, one action per step of a request                        *)
(***************************************************************************)
\* json decoding of the body fails: diagnostic text, WriteHeader(400), return
DecodeFail(r) ==
    /\ pc[r] = "idle"
    /\ resp' = [resp EXCEPT ![r] =
                   WriteHeader(Write(@, "Failed to load request body"), StatusBadRequest)]
    /\ pc' = [pc EXCEPT ![r] = "done"]
    /\ outcome' = [outcome EXCEPT ![r] = "badrequest"]
    /\ UNCHANGED <<lock, chans, chanValue, fnCalls, busyAtSelect, atSelect>>
    /\ UNCHANGED <<newPc, news>>
    /\ UNCHANGED passVars

\* json decoding succeeds: the request reaches the select
DecodeOk(r) ==
    /\ pc[r] = "idle"
    /\ pc' = [pc EXCEPT ![r] = "select"]
    /\ UNCHANGED <<lock, chans, chanValue, resp, fnCalls, outcome, busyAtSelect, atSelect>>
    /\ UNCHANGED <<newPc, news>>
    /\ UNCHANGED passVars

\* case chanValue := <-lock: the deferred release is registered and
\* handle.fn is called
Enter(r) ==
    /\ pc[r] = "select"
    /\ CanRecv(chans[lock])
    /\ chanValue' = [chanValue EXCEPT ![r] = Head(chans[lock].buf)]
    /\ chans' = [chans EXCEPT ![lock] = Recv(@)]
    /\ fnCalls' = [fnCalls EXCEPT ![r] = @ + 1]
    /\ busyAtSelect' = [busyAtSelect EXCEPT ![r] = Executing # {}]
    /\ atSelect' = [atSelect EXCEPT ![r] = Seen]
    /\ pc' = [pc EXCEPT ![r] = "running"]
    /\ UNCHANGED <<lock, resp, outcome>>
    /\ UNCHANGED <<newPc, news>>
    /\ UNCHANGED passVars

\* a busy gate that runs the pass all the same
SkipThenRun(r) ==
    /\ pc[r] = "select"
    /\ ~CanRecv(chans[lock])
    /\ busyAtSelect' = [busyAtSelect EXCEPT ![r] = Executing # {}]
    /\ atSelect' = [atSelect EXCEPT ![r] = Seen]
    /\ fnCalls' = [fnCalls EXCEPT ![r] = @ + 1]
    /\ pc' = [pc EXCEPT ![r] = "running"]
    /\ UNCHANGED <<lock, chans, chanValue, resp, outcome>>
    /\ UNCHANGED <<newPc, news>>
    /\ UNCHANGED passVars

\* default: "Skipped. Another update already running."
Skip(r) ==
    /\ pc[r] = "select"
    /\ ~CanRecv(chans[lock])
    /\ busyAtSelect' = [busyAtSelect EXCEPT ![r] = Executing # {}]
    /\ atSelect' = [atSelect EXCEPT ![r] = Seen]
    /\ pc' = [pc EXCEPT ![r] = "done"]
    /\ outcome' = [outcome EXCEPT ![r] = "skipped"]
    /\ UNCHANGED <<lock, chans, chanValue, resp, fnCalls>>
    /\ UNCHANGED <<newPc, news>>
    /\ UNCHANGED passVars

\* handle.fn returns: the deferred function is next
FnReturn(r) ==
    /\ pc[r] = "running"
    /\ pc' = [pc EXCEPT ![r] = "release"]
    /\ outcome' = [outcome EXCEPT ![r] = "ran"]
    /\ UNCHANGED <<lock, chans, chanValue, resp, fnCalls, busyAtSelect, atSelect>>
    /\ UNCHANGED <<newPc, news>>
    /\ UNCHANGED passVars

\* a panic that leaves Handle without running the deferred release
FnPanicNoRelease(r) ==
    /\ pc[r] = "running"
    /\ pc' = [pc EXCEPT ![r] = "done"]
    /\ outcome' = [outcome EXCEPT ![r] = "panicked"]
    /\ UNCHANGED <<lock, chans, chanValue, resp, fnCalls, busyAtSelect, atSelect>>
    /\ UNCHANGED <<newPc, news>>
    /\ UNCHANGED passVars

\* handle.fn panics: deferred functions still run while the stack unwinds
FnPanic(r) ==
    /\ pc[r] = "running"
    /\ pc' = [pc EXCEPT ![r] = "release"]
    /\ outcome' = [outcome EXCEPT ![r] = "panicked"]
    /\ UNCHANGED <<lock, chans, chanValue, resp, fnCalls, busyAtSelect, atSelect>>
    /\ UNCHANGED <<newPc, news>>
    /\ UNCHANGED passVars

\* defer func() { lock <- chanValue }(): `lock` is read now; the send
\* blocks while that channel is full
Release(r) ==
    /\ pc[r] = "release"
    /\ CanSend(chans[lock])
    /\ chans' = [chans EXCEPT ![lock] = Send(@, chanValue[r])]
    /\ pc' = [pc EXCEPT ![r] = "done"]
    /\ UNCHANGED <<lock, chanValue, resp, fnCalls, outcome, busyAtSelect, atSelect>>
    /\ UNCHANGED <<newPc, news>>
    /\ UNCHANGED passVars

Handle(r) ==
    \/ DecodeFail(r)
    \/ DecodeOk(r)
    \/ Enter(r)
    \/ Skip(r)
    \/ FnReturn(r)
    \/ FnPanic(r)
    \/ Release(r)

GateNext == \E r \in Requests : Handle(r)

(***************************************************************************)
(* New(updateFn, updateLock) called again on a gate in use                 *)
(***************************************************************************)
\* the channels a supplier can pass as updateLock: one made before, or a
\* single-slot channel of a peer, with its token in it or taken by the peer
Supplied == {[known |-> TRUE, at |-> c, ch |-> chans[c]] : c \in 1..Len(chans)}
            \cup {[known |-> FALSE, at |-> Len(chans) + 1, ch |-> ch] :
                     ch \in {MakeChan(1), Send(MakeChan(1), TRUE)}}

\* lines 17-18: updateLock != nil, lock = updateLock
NewSupplied ==
    /\ newPc = "idle"
    /\ news < MaxNews
    /\ \E u \in Supplied :
          /\ lock' = u.at
          /\ chans' = IF u.known THEN chans ELSE Append(chans, u.ch)
    /\ news' = news + 1
    /\ UNCHANGED <<pc, chanValue, resp, fnCalls, outcome, busyAtSelect, atSelect, newPc>>
    /\ UNCHANGED passVars

\* line 20: updateLock == nil, lock = make(chan bool, 1)
NewMake ==
    /\ newPc = "idle"
    /\ news < MaxNews
    /\ chans' = Append(chans, MakeChan(1))
    /\ lock' = Len(chans) + 1
    /\ newPc' = "put"
    /\ news' = news + 1
    /\ UNCHANGED <<pc, chanValue, resp, fnCalls, outcome, busyAtSelect, atSelect>>
    /\ UNCHANGED passVars

\* line 21: lock <- true, on the channel `lock` names now
NewPut ==
    /\ newPc = "put"
    /\ CanSend(chans[lock])
    /\ chans' = [chans EXCEPT ![lock] = Send(@, TRUE)]
    /\ newPc' = "idle"
    /\ UNCHANGED <<lock, pc, chanValue, resp, fnCalls, outcome, busyAtSelect, atSelect,
                   news>>
    /\ UNCHANGED passVars

ReNewNext ==
    \/ \E r \in Requests : Handle(r)
    \/ NewSupplied
    \/ NewMake
    \/ NewPut

(***************************************************************************)
(* Properties of the gate                                                  *)
(***************************************************************************)
\* C1: on a gate holding one token, with New not called again, at most one
\* invocation of the update function is executing at any instant, in every
\* interleaving of the requests.
C1_AtMostOnePassExecuting == Cardinality(Executing) <= 1

\* C1 witness: a pass is executing while another request has gone through
\* its select and a third is about to
C1_Witness_ContendedGate ==
    \E r, q, s \in Requests :
        /\ pc[r] = "running"
        /\ outcome[q] = "skipped"
        /\ pc[s] = "select"

\* a step of request r out of its select while the token is absent
LeavesSelectWithoutToken(r) ==
    /\ pc[r] = "select"
    /\ ~CanRecv(chans[lock])
    /\ pc'[r] # "select"

\* C2: a request that finds the token absent is dropped, not queued: its
\* select step ends Handle at once, leaves the gate and every count of
\* invocations unchanged, and the update function is never invoked for it,
\* then or later.  Every request whose select runs while a pass is
\* executing is skipped, so when the other N-1 requests all arrive during
\* the first pass, one pass has run and N-1 requests are skipped.
C2_BusyRequestIsDropped ==
    /\ [](\A r \in Requests : outcome[r] = "skipped" => pc[r] = "done" /\ fnCalls[r] = 0)
    /\ [](\A r \in Requests : busyAtSelect[r] => outcome[r] = "skipped")
    /\ [](Cardinality({r \in Requests : busyAtSelect[r]}) = NumRequests - 1
            => /\ Cardinality({r \in Requests : fnCalls[r] = 1}) = 1
               /\ Cardinality({r \in Requests : fnCalls[r] = 0}) = NumRequests - 1
               /\ Cardinality({r \in Requests : outcome[r] = "skipped"}) = NumRequests - 1)
    /\ [][\A r \in Requests :
            LeavesSelectWithoutToken(r) =>
                /\ pc'[r] = "done"
                /\ outcome'[r] = "skipped"
                /\ chans' = chans
                /\ lock' = lock
                /\ fnCalls' = fnCalls]_vars

\* C2 witness: every other request arrived during the first pass, which is
\* still running, and was skipped
C2_Witness_AllOthersSkipped ==
    \E p \in Requests :
        /\ pc[p] = "running"
        /\ \A q \in Requests \ {p} : busyAtSelect[q] /\ outcome[q] = "skipped"

\* C3: every admitted pass returns the token when it ends, by return or by
\* panic: whenever no admitted request is between its receive and its
\* release the token is in the gate (IDLE, so the next attempt is admitted),
\* and a pending release can always proceed.
C3_TokenReturnedAfterEveryPass ==
    /\ Holding = {} => CanRecv(chans[lock])
    /\ \A r \in Requests : pc[r] = "release" => CanSend(chans[lock])
    /\ Len(chans[lock].buf) + Cardinality(Holding) = 1

\* C3 witness: a pass ended by a panic, released the token, and a later
\* request was admitted
C3_Witness_AdmittedAfterPanic ==
    \E r, q \in Requests :
        /\ pc[r] = "done"
        /\ outcome[r] = "panicked"
        /\ pc[q] = "running"

(***************************************************************************)
(* Part 2: the update pass.                                                *)
(*                                                                         *)
(* container.Container is a struct with the fields Stale and               *)
(* LinkedToRestarting; []container.Container holds struct values, so the   *)
(* variable of a `for _, c := range` loop is a copy of the element.        *)
(***************************************************************************)
\* a container as the runtime client lists it
Container(n, ls, mon, self, img) ==
    [name |-> n, links |-> ls, isMonitorOnly |-> mon, isWatchtower |-> self,
     imageID |-> img, Stale |-> FALSE, LinkedToRestarting |-> FALSE]

\* a ToRestart that holds of every container
ToRestartAny(c) == TRUE

\* Container.ToRestart()
ToRestart(c) == c.Stale \/ c.LinkedToRestarting

\* every snapshot of n containers with unique names; links name other
\* containers, of the snapshot or not; image IDs are interchangeable, so
\* the first container has the first one
Snapshots(n) ==
    { [i \in 1..n |-> Container(i, ls[i], mon[i], self[i], img[i])] :
        ls \in {l \in [1..n -> SUBSET Names] : \A i \in 1..n : i \notin l[i]},
        mon \in [1..n -> BOOLEAN],
        self \in [1..n -> BOOLEAN],
        img \in {m \in [1..n -> ImageIDs] : n >= 1 => m[1] = "img1"} }

AllParams ==
    [NoRestart : BOOLEAN, MonitorOnly : BOOLEAN, RollingRestart : BOOLEAN,
     Cleanup : BOOLEAN, LifecycleHooks : BOOLEAN]

\* a call on the client or on a hook, with whether it returned an error
Call(op, c, err) == [op |-> op, name |-> c.name, err |-> err]

\* client.ListContainers(params.Filter): a call on no container
ListCall(err) == [op |-> "list", name |-> 0, err |-> err]

\* positions of a container name in a list
IndexOf(cs, n) == CHOOSE i \in 1..Len(cs) : cs[i].name = n

NamesOf(cs) == {cs[i].name : i \in 1..Len(cs)}

RemoveAt(cs, i) == SubSeq(cs, 1, i - 1) \o SubSeq(cs, i + 1, Len(cs))

(***************************************************************************)
(* sorter.SortByDependencies: every container after the link targets that  *)
(* are in the list, the original order kept among independent containers;  *)
(* a cycle is an error.  Each round emits the first container none of      *)
(* whose link targets is still waiting.                                    *)
(***************************************************************************)
Ready(rest, i) == rest[i].links \cap NamesOf(rest) = {}

RECURSIVE SortFrom(_, _)
SortFrom(rest, sorted) ==
    IF rest = <<>> THEN [err |-> FALSE, list |-> sorted]
    ELSE IF \A i \in 1..Len(rest) : ~Ready(rest, i) THEN [err |-> TRUE, list |-> <<>>]
    ELSE LET i == CHOOSE k \in 1..Len(rest) :
                      /\ Ready(rest, k)
                      /\ \A j \in 1..(k - 1) : ~Ready(rest, j)
         IN  SortFrom(RemoveAt(rest, i), Append(sorted, rest[i]))

SortByDependencies(cs) == SortFrom(cs, <<>>)

(***************************************************************************)
(* checkDependencies                                                       *)
(***************************************************************************)
\* some link of c names a candidate of the list that is to restart
LinkedToARestarting(cs, c) ==
    \E linkName \in c.links :
        \E k \in 1..Len(cs) : cs[k].name = linkName /\ ToRestart(cs[k])

\* the loop variable c when the body of the iteration for cs[i] ends
checkDependenciesLocal(cs, i) ==
    LET c == cs[i]
    IN  IF ToRestart(c) THEN c
        ELSE IF LinkedToARestarting(cs, c) THEN [c EXCEPT !.LinkedToRestarting = TRUE]
        ELSE c

\* the slice after iterations i..Len(cs): the body assigns to the loop
\* variable c, a copy of cs[i]; no statement writes an element of the slice
RECURSIVE checkDependenciesFrom(_, _)
checkDependenciesFrom(cs, i) ==
    IF i > Len(cs) THEN cs
    ELSE LET c == checkDependenciesLocal(cs, i)
         IN  checkDependenciesFrom(cs, i + 1)

checkDependencies(cs) == checkDependenciesFrom(cs, 1)

\* a filter that looks at the pass-wide flag only
FilterPassWideOnly(cs, p) ==
    IF p.MonitorOnly THEN <<>> ELSE cs

\* lines 72-79: the containers the restart driver iterates
FilterToUpdate(cs, p) ==
    IF p.MonitorOnly THEN <<>>
    ELSE SelectSeq(cs, LAMBDA c : ~c.isMonitorOnly)

PassIdle ==
    /\ snapshot = <<>>
    /\ params = [NoRestart |-> FALSE, MonitorOnly |-> FALSE, RollingRestart |-> FALSE,
                 Cleanup |-> FALSE, LifecycleHooks |-> FALSE]
    /\ ppc = "off"
    /\ containers = <<>>
    /\ metric = [Scanned |-> 0, Updated |-> 0, Failed |-> 0]
    /\ staleCount = 0
    /\ staleCheckFailed = 0
    /\ containersToUpdate = <<>>
    /\ idx = 0
    /\ failed = 0
    /\ imageIDs = {}
    /\ calls = <<>>
    /\ removed = {}
    /\ returned = "none"

\* Update is called with some parameters, on a runtime holding some snapshot
PassInit ==
    /\ snapshot \in UNION {Snapshots(n) : n \in 0..MaxContainers}
    /\ params \in AllParams
    /\ ppc = "list"
    /\ containers = <<>>
    /\ metric = [Scanned |-> 0, Updated |-> 0, Failed |-> 0]
    /\ staleCount = 0
    /\ staleCheckFailed = 0
    /\ containersToUpdate = <<>>
    /\ idx = 0
    /\ failed = 0
    /\ imageIDs = {}
    /\ calls = <<>>
    /\ removed = {}
    /\ returned = "none"

(***************************************************************************)
(* Update, lines 17-94                                                     *)
(***************************************************************************)
\* lines 26-29: client.ListContainers fails
ListFail ==
    /\ ppc = "list"
    /\ ppc' = "done"
    /\ returned' = "error"
    /\ calls' = Append(calls, ListCall(TRUE))
    /\ UNCHANGED <<snapshot, params, containers, metric, staleCount, staleCheckFailed,
                   containersToUpdate, idx, failed, imageIDs, removed>>
    /\ UNCHANGED gateVars

\* line 26: client.ListContainers succeeds
ListOk ==
    /\ ppc = "list"
    /\ containers' = snapshot
    /\ idx' = 1
    /\ ppc' = "classify"
    /\ calls' = Append(calls, ListCall(FALSE))
    /\ UNCHANGED <<snapshot, params, metric, staleCount, staleCheckFailed,
                   containersToUpdate, failed, imageIDs, removed, returned>>
    /\ UNCHANGED gateVars

\* a classification that keeps what the probe reported when an error occurred
ClassifyKeepsProbe ==
    /\ ppc = "classify"
    /\ idx <= Len(containers)
    /\ \E probed \in BOOLEAN, probeErr \in BOOLEAN, verifyErr \in BOOLEAN :
         LET targetContainer == containers[idx]
             shouldUpdate == /\ probed
                             /\ ~params.NoRestart
                             /\ ~params.MonitorOnly
                             /\ ~targetContainer.isMonitorOnly
             verified == ~probeErr /\ shouldUpdate
             err == IF verified THEN verifyErr ELSE probeErr
             stale == probed
         IN  /\ ~verified => ~verifyErr
             /\ calls' = calls \o <<Call("isStale", targetContainer, probeErr)>>
                           \o (IF verified THEN <<Call("verify", targetContainer, verifyErr)>> ELSE <<>>)
             /\ staleCheckFailed' = IF err THEN staleCheckFailed + 1 ELSE staleCheckFailed
             /\ metric' = IF err THEN [metric EXCEPT !.Failed = @ + 1] ELSE metric
             /\ containers' = [containers EXCEPT ![idx].Stale = stale]
             /\ staleCount' = IF stale THEN staleCount + 1 ELSE staleCount
    /\ idx' = idx + 1
    /\ UNCHANGED <<snapshot, params, ppc, containersToUpdate, failed, imageIDs,
                   removed, returned>>
    /\ UNCHANGED gateVars

\* lines 33-61, one iteration: stale and probeErr are the results of
\* client.IsContainerStale, verifyErr that of VerifyConfiguration if called
Classify ==
    /\ ppc = "classify"
    /\ idx <= Len(containers)
    /\ \E probed \in BOOLEAN, probeErr \in BOOLEAN, verifyErr \in BOOLEAN :
         LET targetContainer == containers[idx]
             shouldUpdate == /\ probed
                             /\ ~params.NoRestart
                             /\ ~params.MonitorOnly
                             /\ ~targetContainer.isMonitorOnly
             verified == ~probeErr /\ shouldUpdate
             err == IF verified THEN verifyErr ELSE probeErr
             stale == IF err THEN FALSE ELSE probed
         IN  /\ ~verified => ~verifyErr
             /\ calls' = calls \o <<Call("isStale", targetContainer, probeErr)>>
                           \o (IF verified THEN <<Call("verify", targetContainer, verifyErr)>> ELSE <<>>)
             /\ staleCheckFailed' = IF err THEN staleCheckFailed + 1 ELSE staleCheckFailed
             /\ metric' = IF err THEN [metric EXCEPT !.Failed = @ + 1] ELSE metric
             /\ containers' = [containers EXCEPT ![idx].Stale = stale]
             /\ staleCount' = IF stale THEN staleCount + 1 ELSE staleCount
    /\ idx' = idx + 1
    /\ UNCHANGED <<snapshot, params, ppc, containersToUpdate, failed, imageIDs,
                   removed, returned>>
    /\ UNCHANGED gateVars

\* lines 63-68: the sort reports an error
SortFail ==
    /\ ppc = "classify"
    /\ idx > Len(containers)
    /\ SortByDependencies(containers).err
    /\ containers' = <<>>
    /\ metric' = [metric EXCEPT !.Scanned = 0]
    /\ ppc' = "done"
    /\ returned' = "error"
    /\ UNCHANGED <<snapshot, params, staleCount, staleCheckFailed, containersToUpdate,
                   idx, failed, imageIDs, calls, removed>>
    /\ UNCHANGED gateVars

\* an Update that takes the rolling strategy whatever params.RollingRestart says
SortOkAlwaysRolling ==
    /\ ppc = "classify"
    /\ idx > Len(containers)
    /\ ~SortByDependencies(containers).err
    /\ LET sorted == checkDependencies(SortByDependencies(containers).list)
       IN  /\ containers' = sorted
           /\ metric' = [metric EXCEPT !.Scanned = Len(sorted)]
           /\ containersToUpdate' = FilterToUpdate(sorted, params)
           /\ idx' = Len(FilterToUpdate(sorted, params))
    /\ failed' = 0
    /\ imageIDs' = {}
    /\ ppc' = "rolling"
    /\ UNCHANGED <<snapshot, params, staleCount, staleCheckFailed, calls, removed,
                   returned>>
    /\ UNCHANGED gateVars

\* lines 63-86: sort, checkDependencies, the filter, the choice of strategy
SortOk ==
    /\ ppc = "classify"
    /\ idx > Len(containers)
    /\ ~SortByDependencies(containers).err
    /\ LET sorted == checkDependencies(SortByDependencies(containers).list)
       IN  /\ containers' = sorted
           /\ metric' = [metric EXCEPT !.Scanned = Len(sorted)]
           /\ containersToUpdate' = FilterToUpdate(sorted, params)
           /\ idx' = Len(FilterToUpdate(sorted, params))
    /\ failed' = 0
    /\ imageIDs' = {}
    /\ ppc' = IF params.RollingRestart THEN "rolling" ELSE "stop"
    /\ UNCHANGED <<snapshot, params, staleCount, staleCheckFailed, calls, removed,
                   returned>>
    /\ UNCHANGED gateVars

(***************************************************************************)
(* stopStaleContainer and restartStaleContainer: the error returned and    *)
(* the calls made, for given results of the hook and of the client.        *)
(***************************************************************************)
\* a stop step without the IsWatchtower early return
stopStaleContainerAlsoSelf(c, p, hookErr, stopErr) ==
    IF ~ToRestart(c) THEN [err |-> FALSE, calls |-> <<>>]
    ELSE IF p.LifecycleHooks /\ hookErr
         THEN [err |-> TRUE, calls |-> <<Call("preUpdate", c, TRUE)>>]
    ELSE [err |-> stopErr,
          calls |-> (IF p.LifecycleHooks THEN <<Call("preUpdate", c, FALSE)>> ELSE <<>>)
                       \o <<Call("stop", c, stopErr)>>]

stopStaleContainer(c, p, hookErr, stopErr) ==
    IF c.isWatchtower THEN [err |-> FALSE, calls |-> <<>>]
    ELSE IF ~ToRestart(c) THEN [err |-> FALSE, calls |-> <<>>]
    ELSE IF p.LifecycleHooks /\ hookErr
         THEN [err |-> TRUE, calls |-> <<Call("preUpdate", c, TRUE)>>]
    ELSE [err |-> stopErr,
          calls |-> (IF p.LifecycleHooks THEN <<Call("preUpdate", c, FALSE)>> ELSE <<>>)
                       \o <<Call("stop", c, stopErr)>>]

\* a restart step that does not look at params.NoRestart
restartStaleContainerAlways(c, p, renameErr, startErr) ==
    LET renaming == IF c.isWatchtower THEN <<Call("rename", c, renameErr)>> ELSE <<>>
    IN  IF c.isWatchtower /\ renameErr THEN [err |-> FALSE, calls |-> renaming]
        ELSE IF startErr THEN [err |-> TRUE, calls |-> renaming \o <<Call("start", c, TRUE)>>]
        ELSE [err |-> FALSE,
              calls |-> renaming \o <<Call("start", c, FALSE)>>
                           \o (IF ToRestart(c) /\ p.LifecycleHooks
                               THEN <<Call("postUpdate", c, FALSE)>> ELSE <<>>)]

restartStaleContainer(c, p, renameErr, startErr) ==
    LET renaming == IF c.isWatchtower THEN <<Call("rename", c, renameErr)>> ELSE <<>>
    IN  IF c.isWatchtower /\ renameErr THEN [err |-> FALSE, calls |-> renaming]
        ELSE IF p.NoRestart THEN [err |-> FALSE, calls |-> renaming]
        ELSE IF startErr THEN [err |-> TRUE, calls |-> renaming \o <<Call("start", c, TRUE)>>]
        ELSE [err |-> FALSE,
              calls |-> renaming \o <<Call("start", c, FALSE)>>
                           \o (IF ToRestart(c) /\ p.LifecycleHooks
                               THEN <<Call("postUpdate", c, FALSE)>> ELSE <<>>)]

Count(err) == IF err THEN 1 ELSE 0

\* stopContainersInReversedOrder, lines 120-124: one iteration
StopStep ==
    /\ ppc = "stop"
    /\ idx >= 1
    /\ \E hookErr \in BOOLEAN, stopErr \in BOOLEAN :
         LET r == stopStaleContainer(containersToUpdate[idx], params, hookErr, stopErr)
         IN  /\ calls' = calls \o r.calls
             /\ failed' = failed + Count(r.err)
    /\ idx' = idx - 1
    /\ UNCHANGED <<snapshot, params, ppc, containers, metric, staleCount,
                   staleCheckFailed, containersToUpdate, imageIDs, removed, returned>>
    /\ UNCHANGED gateVars

\* line 84: stopContainersInReversedOrder returns; restartContainersInSortedOrder starts
StopDone ==
    /\ ppc = "stop"
    /\ idx = 0
    /\ metric' = [metric EXCEPT !.Failed = @ + failed]
    /\ failed' = 0
    /\ imageIDs' = {}
    /\ idx' = 1
    /\ ppc' = "restart"
    /\ UNCHANGED <<snapshot, params, containers, staleCount, staleCheckFailed,
                   containersToUpdate, calls, removed, returned>>
    /\ UNCHANGED gateVars

\* a restart loop that walks the list backwards, as the stop loop does
RestartTargetBackwards(cs, i) == cs[Len(cs) + 1 - i]

\* line 157: the container of the i-th iteration of `for _, c := range containers`
RestartTarget(cs, i) == cs[i]

\* restartContainersInSortedOrder, lines 157-165: one iteration
RestartStep ==
    /\ ppc = "restart"
    /\ idx <= Len(containersToUpdate)
    /\ LET c == RestartTarget(containersToUpdate, idx)
       IN  IF ~ToRestart(c)
           THEN UNCHANGED <<calls, failed, imageIDs>>
           ELSE \E renameErr \in BOOLEAN, startErr \in BOOLEAN :
                  LET r == restartStaleContainer(c, params, renameErr, startErr)
                  IN  /\ calls' = calls \o r.calls
                      /\ failed' = failed + Count(r.err)
                      /\ imageIDs' = imageIDs \cup {c.imageID}
    /\ idx' = idx + 1
    /\ UNCHANGED <<snapshot, params, ppc, containers, metric, staleCount,
                   staleCheckFailed, containersToUpdate, removed, returned>>
    /\ UNCHANGED gateVars

\* a cleanup that returns before its loop
cleanupImagesNone(ids) == {}

\* cleanupImages: client.RemoveImageByID on every key, failures only logged
cleanupImages(ids) == ids

\* lines 167-171 and 85: cleanup, restartContainersInSortedOrder returns
RestartDone ==
    /\ ppc = "restart"
    /\ idx > Len(containersToUpdate)
    /\ removed' = IF params.Cleanup THEN removed \cup cleanupImages(imageIDs) ELSE removed
    /\ metric' = [metric EXCEPT !.Failed = @ + failed]
    /\ ppc' = "finish"
    /\ UNCHANGED <<snapshot, params, containers, staleCount, staleCheckFailed,
                   containersToUpdate, idx, failed, imageIDs, calls, returned>>
    /\ UNCHANGED gateVars

\* a rolling iteration that restarts the container before it stops it
RollingStepStartFirst ==
    /\ ppc = "rolling"
    /\ idx >= 1
    /\ LET c == containersToUpdate[idx]
       IN  IF ~ToRestart(c)
           THEN UNCHANGED <<calls, failed, imageIDs>>
           ELSE \E hookErr \in BOOLEAN, stopErr \in BOOLEAN,
                   renameErr \in BOOLEAN, startErr \in BOOLEAN :
                  LET s == stopStaleContainer(c, params, hookErr, stopErr)
                      r == restartStaleContainer(c, params, renameErr, startErr)
                  IN  /\ calls' = calls \o r.calls \o s.calls
                      /\ failed' = failed + Count(s.err) + Count(r.err)
                      /\ imageIDs' = imageIDs \cup {c.imageID}
    /\ idx' = idx - 1
    /\ UNCHANGED <<snapshot, params, ppc, containers, metric, staleCount,
                   staleCheckFailed, containersToUpdate, removed, returned>>
    /\ UNCHANGED gateVars

\* performRollingRestart, lines 100-110: one iteration
RollingStep ==
    /\ ppc = "rolling"
    /\ idx >= 1
    /\ LET c == containersToUpdate[idx]
       IN  IF ~ToRestart(c)
           THEN UNCHANGED <<calls, failed, imageIDs>>
           ELSE \E hookErr \in BOOLEAN, stopErr \in BOOLEAN,
                   renameErr \in BOOLEAN, startErr \in BOOLEAN :
                  LET s == stopStaleContainer(c, params, hookErr, stopErr)
                      r == restartStaleContainer(c, params, renameErr, startErr)
                  IN  /\ calls' = calls \o s.calls \o r.calls
                      /\ failed' = failed + Count(s.err) + Count(r.err)
                      /\ imageIDs' = imageIDs \cup {c.imageID}
    /\ idx' = idx - 1
    /\ UNCHANGED <<snapshot, params, ppc, containers, metric, staleCount,
                   staleCheckFailed, containersToUpdate, removed, returned>>
    /\ UNCHANGED gateVars

\* lines 112-115 and 82: cleanup, performRollingRestart returns
RollingDone ==
    /\ ppc = "rolling"
    /\ idx = 0
    /\ removed' = IF params.Cleanup THEN removed \cup cleanupImages(imageIDs) ELSE removed
    /\ metric' = [metric EXCEPT !.Failed = @ + failed]
    /\ ppc' = "finish"
    /\ UNCHANGED <<snapshot, params, containers, staleCount, staleCheckFailed,
                   containersToUpdate, idx, failed, imageIDs, calls, returned>>
    /\ UNCHANGED gateVars

\* line 88
UpdatedCount(stale, failedTotal, checkFailed) == stale - (failedTotal - checkFailed)

\* an Update that reports an error to its caller when a container failed
FinishWithErrorOnFailure ==
    /\ ppc = "finish"
    /\ metric' = [metric EXCEPT !.Updated =
                      UpdatedCount(staleCount, metric.Failed, staleCheckFailed)]
    /\ returned' = IF metric.Failed > 0 THEN "error" ELSE "metric"
    /\ ppc' = "done"
    /\ UNCHANGED <<snapshot, params, containers, staleCount, staleCheckFailed,
                   containersToUpdate, idx, failed, imageIDs, calls, removed>>
    /\ UNCHANGED gateVars

\* lines 88-93: the metric is closed and returned
Finish ==
    /\ ppc = "finish"
    /\ metric' = [metric EXCEPT !.Updated =
                      UpdatedCount(staleCount, metric.Failed, staleCheckFailed)]
    /\ returned' = "metric"
    /\ ppc' = "done"
    /\ UNCHANGED <<snapshot, params, containers, staleCount, staleCheckFailed,
                   containersToUpdate, idx, failed, imageIDs, calls, removed>>
    /\ UNCHANGED gateVars

PassNext ==
    \/ ListFail
    \/ ListOk
    \/ Classify
    \/ SortFail
    \/ SortOk
    \/ StopStep
    \/ StopDone
    \/ RestartStep
    \/ RestartDone
    \/ RollingStep
    \/ RollingDone
    \/ Finish

(***************************************************************************)
(* Specifications                                                          *)
(***************************************************************************)
\* concurrent requests on the gate made by New(fn, nil)
InitGate == GateIdle /\ PassIdle

SpecGate == InitGate /\ [][GateNext]_vars

\* concurrent requests on a gate while New is called again
InitReNew == GateIdle /\ PassIdle

SpecReNew == InitReNew /\ [][ReNewNext]_vars

\* one update pass
InitPass == PassInit /\ GateIdle

SpecPass == InitPass /\ [][PassNext]_vars

(***************************************************************************)
(* Properties of the update pass                                           *)
(***************************************************************************)
\* the positions in `calls` of the calls of the given operations
CallIdx(ops) == {i \in 1..Len(calls) : calls[i].op \in ops}

\* the positions of the calls of one operation on one container
CallsOn(op, n) == {i \in 1..Len(calls) : calls[i].op = op /\ calls[i].name = n}

\* the position of the only such call
CallPos(op, n) == CHOOSE i \in CallsOn(op, n) : TRUE

\* the position of a container in the sorted list
SortedPos(n) == IndexOf(containers, n)

\* the restart driver has started, or the pass has returned its metric
PastPropagation == ppc \in {"stop", "restart", "rolling", "finish"} \/ returned = "metric"

\* C4: no container with isMonitorOnly = true is passed to the client's stop
\* or start, and when params.MonitorOnly is set no container at all is
\* passed to stop, start or rename, whatever the parameters and failures.
C4_MonitorOnlyNeverTouched ==
    /\ \A i \in CallIdx({"stop", "start"}) : ~snapshot[calls[i].name].isMonitorOnly
    /\ params.MonitorOnly => CallIdx({"stop", "start", "rename"}) = {}

\* C4 witness: a pass that found a monitor-only container stale and
\* stopped and started another container has returned
C4_Witness_StaleMonitorOnlyLeftAlone ==
    /\ returned = "metric"
    /\ \E i \in 1..Len(containers) : containers[i].isMonitorOnly /\ containers[i].Stale
    /\ CallIdx({"stop"}) # {}
    /\ CallIdx({"start"}) # {}

\* C5: in every pass, of either strategy, a container with isSelf = true
\* receives no stop call and at most one rename call.
C5_SelfNeverStoppedRenamedOnce ==
    \A n \in 1..Len(snapshot) :
        snapshot[n].isWatchtower =>
            /\ CallsOn("stop", n) = {}
            /\ Cardinality(CallsOn("rename", n)) <= 1

\* C5 witness: a stale self container was renamed and started, next to
\* another container that was stopped
C5_Witness_SelfReplaced ==
    /\ returned = "metric"
    /\ \E n \in 1..Len(snapshot) :
          /\ snapshot[n].isWatchtower
          /\ CallsOn("rename", n) # {}
          /\ CallsOn("start", n) # {}
    /\ CallIdx({"stop"}) # {}

\* C6: in a two-phase pass every stop call and every pre-update hook call
\* comes before the first start or rename call; the stops follow the
\* sorted list backwards and the starts follow it forwards.
C6_TwoPhaseStopsBeforeStarts ==
    ~params.RollingRestart =>
        /\ \A i \in CallIdx({"start", "rename"}) :
              \A j \in CallIdx({"stop", "preUpdate"}) : j < i
        /\ \A i, j \in CallIdx({"stop"}) :
              i < j => SortedPos(calls[i].name) > SortedPos(calls[j].name)
        /\ \A i, j \in CallIdx({"start"}) :
              i < j => SortedPos(calls[i].name) < SortedPos(calls[j].name)

\* C6 witness: a two-phase pass with hooks stopped two containers and
\* started two
C6_Witness_TwoStopsTwoStarts ==
    /\ ~params.RollingRestart
    /\ returned = "metric"
    /\ CallIdx({"preUpdate"}) # {}
    /\ Cardinality(CallIdx({"stop"})) >= 2
    /\ Cardinality(CallIdx({"start"})) >= 2

\* A links to B, both are to restart, both were stopped and started
RestartedPair(a, b) ==
    /\ b \in snapshot[a].links
    /\ CallsOn("stop", a) # {} /\ CallsOn("stop", b) # {}
    /\ CallsOn("start", a) # {} /\ CallsOn("start", b) # {}
    /\ ToRestart(containers[SortedPos(a)])
    /\ ToRestart(containers[SortedPos(b)])

\* the sorter's guarantee: every link target that is in the list stands
\* before the container that links to it
TargetsSortedFirst(cs) ==
    \A i, j \in 1..Len(cs) : cs[j].name \in cs[i].links => j < i

\* C7: in a two-phase pass, with link targets sorted before the containers
\* that link to them, for every pair (A, B) where A links to B and both are
\* to restart and both are stopped and started: stop(A) precedes stop(B)
\* and start(B) precedes start(A).
C7_DependentsStopFirstStartLast ==
    (~params.RollingRestart /\ TargetsSortedFirst(containers)) =>
        \A a, b \in 1..Len(snapshot) :
            RestartedPair(a, b) =>
                /\ CallPos("stop", a) < CallPos("stop", b)
                /\ CallPos("start", b) < CallPos("start", a)

\* C7 witness: such a pair, listed with the dependent first, went through a
\* two-phase pass
C7_Witness_LinkedPairRestarted ==
    /\ ~params.RollingRestart
    /\ returned = "metric"
    /\ \E a, b \in 1..Len(snapshot) : a < b /\ RestartedPair(a, b)

\* the names of the containers of cs that link, through containers of cs,
\* to one of the names of S
RECURSIVE LinkingInto(_, _)
LinkingInto(cs, S) ==
    LET more == {cs[i].name : i \in {k \in 1..Len(cs) : cs[k].links \cap S # {}}}
    IN  IF more \subseteq S THEN S ELSE LinkingInto(cs, S \cup more)

StaleNames(cs) == {cs[i].name : i \in {k \in 1..Len(cs) : cs[k].Stale}}

\* C8: after checkDependencies, every container with stale = false that
\* links, directly or through containers of the snapshot, to a container
\* with stale = true has linkedToRestarting = true in the list the restart
\* driver iterates.
C8_DependentsOfStaleAreMarked ==
    PastPropagation =>
        \A i \in 1..Len(containers) :
            (/\ ~containers[i].Stale
             /\ containers[i].name \in LinkingInto(containers, StaleNames(containers)))
                => containers[i].LinkedToRestarting

\* C9 as stated: with params.NoRestart the pass issues no stop call and no
\* start call.
C9_NoRestartNoStopNoStart ==
    params.NoRestart => CallIdx({"stop", "start"}) = {}

\* C9 as amended: with params.NoRestart classification still runs for
\* every container and no start call is issued; the stop step still runs:
\* every container of the driver's list that is to restart and is not the
\* self container gets its pre-update hook or its stop call.
C9_NoRestartNoStart ==
    params.NoRestart =>
        /\ CallIdx({"start"}) = {}
        /\ PastPropagation => \A n \in 1..Len(snapshot) : CallsOn("isStale", n) # {}
        /\ returned = "metric" =>
              \A i \in 1..Len(containersToUpdate) :
                  LET c == containersToUpdate[i]
                  IN  (ToRestart(c) /\ ~c.isWatchtower) =>
                          \/ CallsOn("stop", c.name) # {}
                          \/ CallsOn("preUpdate", c.name) # {}

\* C9 witness: a pass with params.NoRestart stopped a stale container and
\* renamed the self container
C9_Witness_NoRestartStillStops ==
    /\ params.NoRestart
    /\ returned = "metric"
    /\ CallIdx({"stop"}) # {}
    /\ CallIdx({"rename"}) # {}

\* C10: in every returned metric scanned, updated and failed are >= 0.
C10_MetricNeverNegative ==
    returned = "metric" =>
        /\ metric.Scanned >= 0
        /\ metric.Updated >= 0
        /\ metric.Failed >= 0

\* the image IDs of the containers of the driver's list that are to restart
ToRestartImages ==
    {containersToUpdate[i].imageID :
        i \in {k \in 1..Len(containersToUpdate) : ToRestart(containersToUpdate[k])}}

\* the image IDs of the containers client.StartContainer was called on
StartAttemptedImages == {snapshot[calls[i].name].imageID : i \in CallIdx({"start"})}

\* C11 as stated: the image IDs passed to removeImage are those of the
\* containers on which start was attempted when cleanup is set, and none
\* when it is not, also with noRestart and after a failed self rename.
C11_RemovedAreStartAttempted ==
    returned = "metric" =>
        removed = IF params.Cleanup THEN StartAttemptedImages ELSE {}

\* C11 as amended: the image IDs passed to removeImage are those of the
\* to-restart containers of the driver's list when cleanup is set, and none
\* when it is not; no image is removed before the restart loop has ended.
\* These are the images start was attempted on unless noRestart is set or a
\* self rename failed, where start is skipped and the image still removed.
C11_RemovedAreToRestart ==
    /\ removed # {} => ppc \in {"finish", "done"}
    /\ returned = "metric" =>
          /\ removed = IF params.Cleanup THEN ToRestartImages ELSE {}
          /\ StartAttemptedImages \subseteq ToRestartImages
          /\ (~params.NoRestart /\ \A i \in CallIdx({"rename"}) : ~calls[i].err)
                => StartAttemptedImages = ToRestartImages

\* C11 witness: a pass with cleanup and noRestart removed an image without
\* having started any container
C11_Witness_RemovedWithoutStart ==
    /\ returned = "metric"
    /\ params.Cleanup /\ params.NoRestart
    /\ removed # {}
    /\ CallIdx({"start"}) = {}

\* some call of one of the operations on container n returned an error
FailedOn(ops, n) ==
    \E i \in CallIdx(ops) : calls[i].name = n /\ calls[i].err

\* C12: if the stop step of a to-restart container fails, by its pre-update
\* hook (then the client's stop is not called on it) or by the client's
\* stop, start is never called on it in this pass, in either strategy, and
\* the container adds exactly one to failed.
C12_FailedStopEndsTheContainer ==
    /\ \A n \in 1..Len(snapshot) :
          /\ FailedOn({"preUpdate"}, n) => CallsOn("stop", n) = {}
          /\ FailedOn({"preUpdate", "stop"}, n) => CallsOn("start", n) = {}
    /\ returned = "metric" =>
          metric.Failed - staleCheckFailed =
              Cardinality({n \in 1..Len(snapshot) :
                              FailedOn({"preUpdate", "stop", "start"}, n)})

\* client.ListContainers returned an error
ListFailed == \E i \in CallIdx({"list"}) : calls[i].err

\* the stop step and the restart step were run on container c of the
\* driver's list
StepsRunOn(c) ==
    /\ c.isWatchtower
          \/ CallsOn("stop", c.name) # {}
          \/ FailedOn({"preUpdate"}, c.name)
    /\ c.isWatchtower => CallsOn("rename", c.name) # {}
    /\ \/ CallsOn("start", c.name) # {}
       \/ params.NoRestart
       \/ FailedOn({"rename"}, c.name)

\* C13: Update returns an error if and only if the client's list fails or
\* the dependency sort reports an error, and then it has made no stop,
\* start, rename or removeImage call.  No other failure stops the pass: it
\* always has a next step until it returns, and when it returns its metric
\* every to-restart container of the driver's list has had its stop step
\* and its restart step.
C13_OnlyListAndSortErrorsSurface ==
    /\ (ppc = "done") = (returned # "none")
    /\ ppc # "done" => ENABLED PassNext
    /\ returned = "error" =>
          /\ CallIdx({"stop", "start", "rename"}) = {}
          /\ removed = {}
    /\ ppc = "done" =>
          ((returned = "error") = (ListFailed \/ SortByDependencies(snapshot).err))
    /\ returned = "metric" =>
          \A i \in 1..Len(containersToUpdate) :
              ToRestart(containersToUpdate[i]) => StepsRunOn(containersToUpdate[i])

\* C13 witness: a pass returned its metric after a classification error,
\* a failed stop and a failed start on one container, and a successful
\* start of another container
C13_Witness_FailuresDoNotAbort ==
    /\ returned = "metric"
    /\ \E a, b \in 1..Len(snapshot) :
          /\ a # b
          /\ FailedOn({"stop"}, a) /\ FailedOn({"start"}, a)
          /\ CallsOn("start", b) # {} /\ ~FailedOn({"start"}, b)
          /\ CallPos("start", a) < CallPos("start", b)

(***************************************************************************)
(* Counting passes on the gate                                             *)
(***************************************************************************)
RECURSIVE SumCalls(_)
SumCalls(rs) ==
    IF rs = {} THEN 0
    ELSE LET r == CHOOSE x \in rs : TRUE
         IN  fnCalls[r] + SumCalls(rs \ {r})

\* the passes that actually executed: invocations of the update function
Passes == SumCalls(Requests)

\* the attempt-enter calls made so far
Attempts == {r \in Requests : atSelect[r].made}

\* C14 as stated: with at least one attempt made and every request ended,
\* the number of passes equals one plus the number of attempts made after
\* some prior pass had completed.
C14_PassesAreOnePlusAttemptsAfterCompletion ==
    (Attempts # {} /\ \A r \in Requests : pc[r] = "done") =>
        Passes = 1 + Cardinality({r \in Attempts : atSelect[r].completed})

\* C14 amended: at every instant with at least one attempt made, the
\* number of passes equals one plus the number of attempts made after a
\* prior pass completed and while no request holds the token; an attempt
\* made while a request holds the token is dropped, whatever completed
\* before it.
C14_PassesAreOnePlusAttemptsOnFreeGate ==
    /\ Attempts # {} =>
          Passes = 1 + Cardinality({r \in Attempts :
                                       atSelect[r].completed /\ ~atSelect[r].held})
    /\ \A r \in Attempts : atSelect[r].held => fnCalls[r] = 0
    /\ \A r \in Attempts : ~atSelect[r].held => fnCalls[r] = 1

\* C14 witness: a pass completed and released, a second pass was admitted,
\* and an attempt made during the second pass, after the first completed,
\* was dropped
C14_Witness_DroppedAfterPriorCompletion ==
    \E r, q, d \in Requests :
        /\ outcome[r] = "ran" /\ pc[r] = "done"
        /\ fnCalls[q] = 1 /\ atSelect[q].completed /\ ~atSelect[q].held
        /\ atSelect[d].completed /\ atSelect[d].held /\ outcome[d] = "skipped"
        /\ Passes = 2

\* C15: when decoding the request body fails, Handle answers with status
\* 400 and a diagnostic text, the update function is not invoked, and the
\* token is neither taken nor returned, whatever the gate state.
C15_DecodeFailureAnswers400 ==
    \A r \in Requests :
        outcome[r] = "badrequest" =>
            /\ FinalStatus(resp[r]) = StatusBadRequest
            /\ Len(resp[r].body) > 0
            /\ fnCalls[r] = 0
            /\ ~atSelect[r].made
            /\ pc[r] = "done"

\* every container is stopped at most once and started at most once, the
\* stops and the starts follow the sorted list backwards, and the stop of a
\* container comes before its start
RollingVisitsOnceBackwards ==
    /\ \A n \in 1..Len(snapshot) :
          /\ Cardinality(CallsOn("stop", n)) <= 1
          /\ Cardinality(CallsOn("start", n)) <= 1
          /\ \A i \in CallsOn("stop", n) : \A k \in CallsOn("start", n) : i < k
    /\ \A i, j \in CallIdx({"stop"}) :
          i < j => SortedPos(calls[i].name) > SortedPos(calls[j].name)
    /\ \A i, j \in CallIdx({"start"}) :
          i < j => SortedPos(calls[i].name) > SortedPos(calls[j].name)
    /\ \A k \in CallIdx({"start"}) : \A j \in CallIdx({"stop"}) :
          SortedPos(calls[k].name) > SortedPos(calls[j].name) => k < j

\* between two stop calls the start of the container stopped first is
\* attempted
StartBetweenStops ==
    \A i, j \in CallIdx({"stop"}) :
        i < j => \E k \in CallsOn("start", calls[i].name) : i < k /\ k < j

\* C16 as stated: in a rolling pass the containers are visited once in
\* reverse sorted order and no container is stopped while an earlier
\* visited container has been stopped and its start not yet attempted.
C16_RollingStopStartInterleaved ==
    params.RollingRestart => RollingVisitsOnceBackwards /\ StartBetweenStops

\* C16 amended: the same when params.NoRestart is not set; with
\* params.NoRestart the rolling pass makes the stops alone, in reverse
\* sorted order, and no start.
C16_RollingStopStartInterleavedUnlessNoRestart ==
    params.RollingRestart =>
        /\ RollingVisitsOnceBackwards
        /\ ~params.NoRestart => StartBetweenStops
        /\ params.NoRestart => CallIdx({"start"}) = {}

\* C16 witness: a rolling pass stopped and started two containers
C16_Witness_RollingTwoContainers ==
    /\ params.RollingRestart
    /\ ~params.NoRestart
    /\ returned = "metric"
    /\ Cardinality(CallIdx({"stop"})) >= 2
    /\ Cardinality(CallIdx({"start"})) >= 2

\* the calls appended to the log by the step
NewCalls == SubSeq(calls', Len(calls) + 1, Len(calls'))

\* the step is one iteration of the classification loop
ClassifyIteration == ppc = "classify" /\ idx <= Len(containers) /\ idx' = idx + 1

\* the Stale fields of a list, by container name
StaleOf(cs) == [n \in NamesOf(cs) |-> cs[IndexOf(cs, n)].Stale]

\* the containers whose probe or verification returned an error
CheckFailedNames == {n \in 1..Len(snapshot) : FailedOn({"isStale", "verify"}, n)}

\* C17: an iteration of the classification loop in which the staleness
\* probe or the verification returns an error leaves the container's
\* Stale false (a verification is only made after the probe reported
\* true), adds one to failed and to staleCheckFailed, leaves staleCount,
\* and goes on to the next container.  Each iteration writes the Stale of
\* its own container and no other step changes any Stale, so Stale is
\* written once per container, before the sort.
C17_ClassificationErrorsAreRecovered ==
    /\ [][ClassifyIteration =>
            /\ ppc' = "classify"
            /\ \A n \in NamesOf(containers) \ {containers[idx].name} :
                  StaleOf(containers')[n] = StaleOf(containers)[n]
            /\ (\E i \in 1..Len(NewCalls) : NewCalls[i].err) =>
                  /\ ~containers'[idx].Stale
                  /\ metric'.Failed = metric.Failed + 1
                  /\ staleCheckFailed' = staleCheckFailed + 1
                  /\ staleCount' = staleCount]_vars
    /\ [][(~ClassifyIteration /\ containers # <<>> /\ containers' # <<>>) =>
            StaleOf(containers') = StaleOf(containers)]_vars
    /\ [](\A i \in 1..Len(containers) :
            /\ containers[i].name \in CheckFailedNames => ~containers[i].Stale
            /\ (ppc = "classify" /\ i >= idx) => ~containers[i].Stale)
    /\ [](staleCheckFailed = Cardinality(CheckFailedNames))
    /\ [](CallIdx({"isStale", "verify"}) # {} /\ ppc # "classify"
            => \A n \in 1..Len(snapshot) : Cardinality(CallsOn("isStale", n)) = 1)

\* C17 witness: the verification of a container failed after its probe
\* reported true, the probe of another failed, and the pass went on to
\* its restart driver with failed = staleCheckFailed = 2
C17_Witness_ErrorsThenRestart ==
    /\ PastPropagation
    /\ CallIdx({"verify"}) \cap {i \in 1..Len(calls) : calls[i].err} # {}
    /\ CallIdx({"isStale"}) \cap {i \in 1..Len(calls) : calls[i].err} # {}
    /\ staleCheckFailed = 2
    /\ staleCount = 0

\* the containers of the local list that classification left stale
StaleContainers == {i \in 1..Len(containers) : containers[i].Stale}

\* stop, start and rename are called only on containers whose Stale or
\* LinkedToRestarting is set; without a stale container the pass makes
\* none of these calls, removes no image, and returns updated = 0 with
\* scanned equal to the snapshot size
OnlyToRestartTouched ==
    /\ \A i \in CallIdx({"stop", "start", "rename"}) :
          LET c == containers[SortedPos(calls[i].name)]
          IN  c.Stale \/ c.LinkedToRestarting
    /\ (PastPropagation /\ StaleContainers = {}) =>
          /\ CallIdx({"stop", "start", "rename"}) = {}
          /\ removed = {}
    /\ (returned = "metric" /\ StaleContainers = {}) =>
          /\ metric.Updated = 0
          /\ metric.Scanned = Len(snapshot)

\* C18 as stated: only containers that are to restart are touched, and a
\* pass that finds no container stale returns failed = 0.
C18_NothingStaleNothingFailed ==
    /\ OnlyToRestartTouched
    /\ (returned = "metric" /\ StaleContainers = {}) => metric.Failed = 0

\* C18 amended: only containers that are to restart are touched, and a
\* pass that finds no container stale returns failed equal to the number
\* of containers whose probe or verification returned an error.
C18_NothingStaleOnlyCheckFailures ==
    /\ OnlyToRestartTouched
    /\ (returned = "metric" /\ StaleContainers = {}) =>
          metric.Failed = Cardinality(CheckFailedNames)

\* C18 witness: a pass over two containers found none stale, the probe of
\* one having failed, and returned failed = 1 without touching any
C18_Witness_NothingStaleOneProbeFailed ==
    /\ returned = "metric"
    /\ Len(snapshot) = 2
    /\ StaleContainers = {}
    /\ Cardinality(CheckFailedNames) = 1
    /\ metric = [Scanned |-> 2, Updated |-> 0, Failed |-> 1]
    /\ CallIdx({"stop", "start", "rename"}) = {}

\* the containers on which client.StartContainer was called and succeeded
StartedNames == {calls[i].name : i \in {k \in CallIdx({"start"}) : ~calls[k].err}}

\* C19: in every returned metric, updated equals the number of containers
\* on which the client's start was called and succeeded during the pass.
C19_UpdatedCountsSuccessfulStarts ==
    returned = "metric" => metric.Updated = Cardinality(StartedNames)

\* C20: when New is called again while an admitted pass is running, the
\* release at the end of the running pass never blocks and no second pass
\* is admitted while the first is running.
C20_GateSoundWhenNewCalledAgain ==
    /\ \A r \in Requests : pc[r] = "release" => CanSend(chans[lock])
    /\ Cardinality(Executing) <= 1

====
